---- MODULE Spec2Model ----
(***************************************************************************)
(* Model of prnam/autoscaler (src/autoscaler.py): the AutoScaler control   *)
(* loop (run), its two transport operations with bounded retry and         *)
(* backoff (get_current_status, set_replica_count), the cooperative stop   *)
(* flag (request_stop, handle_sigterm) and the process entry point (main,  *)
(* parse_arguments).                                                       *)
(*                                                                         *)
(* The remote application is a black box: every HTTP request is answered   *)
(* by a nondeterministically chosen outcome.  CPU figures are modelled as  *)
(* integers (only their order against the target matters to the code).     *)
(* Durations (retry_delay, polling_interval) range over naturals.          *)
(***************************************************************************)
EXTENDS Integers, Sequences, FiniteSets, TLC

\* ---------------------------------------------------------------- bounds
MaxRetryCount == 2
MaxRetryDelay == 2
MaxCpu == 2
MaxReplicas == 2
MaxIter == 2

\* ------------------------------------------------------ program constants
MinPort == 1
MaxPort == 65535
DefaultPort == 8123
DefaultPollingInterval == 15
StatusOk == 200
StatusNoContent == 204
HostExitCode == 1

\* ------------------------------------------------------------ input sets
RetryCounts == 0..MaxRetryCount
RetryDelays == 0..MaxRetryDelay
\* The polling interval only sets the length of the polling sleep.
PollingIntervals == {DefaultPollingInterval}
Cpus == 0..MaxCpu
\* CPU figures are counted in steps around the target: cpu 0 is below the
\* target 1, cpu 2 and more above it.
Targets == {1}
Replicas == 0..MaxReplicas
\* Status codes a server may answer with: the two success codes and an error.
StatusCodes == {StatusOk, StatusNoContent, 500}

\* A host argument is either a name or a dotted-quad literal.
HostName(n) == [name |-> n, octets |-> <<>>]
HostV4(o) == [name |-> "", octets |-> o]
Hosts == { HostName("localhost"), HostName("invalid_ip"), HostV4(<<256, 0, 0, 1>>) }

\* The -p option is either absent (argparse stores the default without
\* running the action) or given with an integer value.
PortArgs == { [given |-> FALSE, value |-> DefaultPort] }
            \cup { [given |-> TRUE, value |-> p] : p \in {0, MaxPort, MaxPort + 1} }

\* Values of the local `status` of run(): None, or what response.json() gave:
\* a well-formed snapshot, a non-empty JSON object lacking the fields, or a
\* falsy JSON value ({}, [], null, 0).
NoStatus == [kind |-> "none", cpu |-> 0, replicas |-> 0]
Malformed == [kind |-> "missing", cpu |-> 0, replicas |-> 0]
Falsy == [kind |-> "falsy", cpu |-> 0, replicas |-> 0]
Snapshot(c, r) == [kind |-> "snapshot", cpu |-> c, replicas |-> r]
Snapshots == { Snapshot(c, r) : c \in Cpus, r \in Replicas }
\* Bodies of a 200 answer; "unparseable" makes response.json() raise.
Unparseable == [kind |-> "unparseable", cpu |-> 0, replicas |-> 0]
Bodies == Snapshots \cup {Malformed, Falsy, Unparseable}

\* What one HTTP request can come back with: a transport failure
\* (requests.exceptions.RequestException) or a response.
TransportFailure == [failed |-> TRUE, status_code |-> 0, body |-> NoStatus]
Response(code, b) == [failed |-> FALSE, status_code |-> code, body |-> b]
GetResponses == {TransportFailure}
                \cup { Response(StatusOk, b) : b \in Bodies }
                \cup { Response(c, NoStatus) : c \in StatusCodes \ {StatusOk} }
PutResponses == {TransportFailure} \cup { Response(c, NoStatus) : c \in StatusCodes }
\* No answer received yet.
NoResponse == [failed |-> FALSE, status_code |-> 0, body |-> NoStatus]

Argvs == [host : Hosts, port : PortArgs, retry_count : RetryCounts, retry_delay : RetryDelays,
          polling_interval : PollingIntervals, target_cpu_usage : Targets]
\* The harness constructs the scaler directly, with a valid endpoint.
HarnessArgvs == { a \in Argvs : a.host = HostName("localhost") /\ ~a.port.given }

VARIABLES
    entry,              \* "main": python autoscaler.py; "harness": direct use of the class
    argv,               \* command line of the main entry
    mainpc,             \* position in main() / in the harness
    exit_status,        \* process exit status, -1 while the process runs
    pending,            \* exception propagating out of main's try block
    constructed,        \* AutoScaler.__init__ has run
    handler_installed,  \* signal.signal(SIGTERM, ...) has run
    retry_count, retry_delay, polling_interval, target_cpu_usage,
    run_once, stop_requested,
    runpc,              \* position in run() and its callees
    exc,                \* exception that ended run()
    attempts,           \* local of get_current_status / set_replica_count
    status, current_cpu, current_replicas, new_replicas,   \* locals of run()
    iter,               \* iterations of the while loop started so far
    call_iters,         \* iterations started by the current call of run()
    reqs,               \* HTTP requests issued by the invocation in progress
    sleeps,             \* backoff delays slept by the invocation in progress
    put_calls,          \* set_replica_count invocations of this iteration
    put_sent,           \* payloads of the PUT requests of this iteration
    put_outcome,        \* how the last set_replica_count invocation ended
    get_outcome,        \* how the last get_current_status invocation ended
    net_used,           \* some HTTP request was issued by the process
    last_sleep,         \* duration of the sleep in progress / last performed
    response,           \* last answer received by the current invocation; none
                        \* once the next request is issued or the invocation gives up
    iter_sleep          \* total of the backoff sleeps of this iteration

cfgvars == <<retry_count, retry_delay, polling_interval, target_cpu_usage>>
mainvars == <<entry, argv, mainpc, exit_status, pending, constructed, handler_installed>>
flagvars == <<run_once, stop_requested>>
localvars == <<status, current_cpu, current_replicas, new_replicas>>
histvars == <<reqs, sleeps, put_calls, put_sent, put_outcome, get_outcome, net_used, last_sleep,
              response, iter_sleep>>
runvars == <<runpc, exc, attempts, iter, call_iters>>
vars == <<mainvars, cfgvars, flagvars, localvars, histvars, runvars>>

\* ------------------------------------------------------- pure functions
RECURSIVE Pow(_, _)
Pow(b, n) == IF n = 0 THEN 1 ELSE b * Pow(b, n - 1)

Max(a, b) == IF a >= b THEN a ELSE b

\* Mutant: the conventional backoff, base times 2^(attempt - 1).
BackoffConventional(delay, n) == delay * Pow(2, n - 1)

\* time.sleep(self.retry_delay**attempts)
Backoff(delay, n) == Pow(delay, n)

\* Mutant: one attempt too many (<= for <).
RetryAllowedOffByOne(a, rc) == a <= rc

\* while attempts < self.retry_count
RetryAllowed(a, rc) == a < rc

\* Mutant: the loop ignores the stop flag (while True).
LoopContinuesIgnoresStop(stop) == TRUE

\* while not self.stop_requested
LoopContinues(stop) == ~stop

\* Mutant: the decrease is not floored at one replica.
NewReplicasNoFloor(cpu, target, cur) ==
    LET below == IF cpu < target THEN cur - 1 ELSE cur
    IN  IF cpu > target THEN cur + 1 ELSE below

\* Mutant: the increase adds two replicas.
NewReplicasDoubleStep(cpu, target, cur) ==
    LET below == IF cpu < target THEN Max(1, cur - 1) ELSE cur
    IN  IF cpu > target THEN cur + 2 ELSE below

\* Mutant: the increase also fires at the target (>= for >).
NewReplicasAtTarget(cpu, target, cur) ==
    LET below == IF cpu < target THEN Max(1, cur - 1) ELSE cur
    IN  IF cpu >= target THEN cur + 1 ELSE below

\* The decision rule of run(): two independent ifs over the initial value.
NewReplicas(cpu, target, cur) ==
    LET below == IF cpu < target THEN Max(1, cur - 1) ELSE cur
    IN  IF cpu > target THEN cur + 1 ELSE below

\* Mutant: the write is issued whatever the decision.
ShouldWriteAlways(new, cur) == TRUE

\* if new_replicas != current_replicas
ShouldWrite(new, cur) == new # cur

\* Mutant: the absence of a status is not tested.
TruthyAlways(st) == TRUE

\* if status:
Truthy(st) == st.kind \in {"snapshot", "missing"}

\* Mutant: any of the two success codes ends the write.
PutSucceedsAny2xx(resp) == ~resp.failed /\ resp.status_code \in {StatusOk, StatusNoContent}

\* response.status_code == 200 / == 204, reached only when no exception was raised
GetSucceeds(resp) == ~resp.failed /\ resp.status_code = StatusOk
PutSucceeds(resp) == ~resp.failed /\ resp.status_code = StatusNoContent

\* ipaddress.ip_address(ip) accepts a dotted quad of four octets
IsIpLiteral(ip) ==
    /\ ip.name = ""
    /\ Len(ip.octets) = 4
    /\ \A i \in 1..Len(ip.octets) : ip.octets[i] \in 0..255

is_valid_ip_address(ip) ==
    \/ ip.name = "localhost"
    \/ ip.name = "host.docker.internal"
    \/ IsIpLiteral(ip)

\* ValidatePortAction.__call__ runs only when the option is given
PortAccepted(p) == ~p.given \/ (MinPort <= p.value /\ p.value <= MaxPort)

\* Exit code of parse_arguments, 0 when it returns the namespace.
\* parser.parse_args() runs first (argparse turns the ArgumentError into
\* exit code 2), the host check second.
ParseExitCode(a) ==
    IF ~PortAccepted(a.port) THEN 2
    ELSE IF ~is_valid_ip_address(a.host) THEN HostExitCode
    ELSE 0

Active == runpc \notin {"idle", "returned", "raised"}

\* ---------------------------------------------------------------- Init
Init ==
    /\ entry \in {"main", "harness"}
    /\ argv \in Argvs
    /\ entry = "harness" => argv \in HarnessArgvs
    /\ mainpc = IF entry = "main" THEN "parse" ELSE "construct"
    /\ exit_status = -1
    /\ pending = "none"
    /\ constructed = FALSE
    /\ handler_installed = FALSE
    /\ retry_count = 0 /\ retry_delay = 0 /\ polling_interval = 0 /\ target_cpu_usage = 0
    /\ run_once = FALSE /\ stop_requested = FALSE
    /\ runpc = "idle" /\ exc = "none" /\ attempts = 0 /\ iter = 0 /\ call_iters = 0
    /\ status = NoStatus /\ current_cpu = 0 /\ current_replicas = 0 /\ new_replicas = 0
    /\ reqs = 0 /\ sleeps = <<>> /\ put_calls = 0 /\ put_sent = <<>>
    /\ put_outcome = "none" /\ get_outcome = "none"
    /\ net_used = FALSE /\ last_sleep = 0
    /\ response = NoResponse /\ iter_sleep = 0

\* Mutant: the flag is toggled instead of set.
request_stopToggles == stop_requested' = ~stop_requested

\* AutoScaler.request_stop: self.stop_requested = True
request_stop == stop_requested' = TRUE

\* ------------------------------------------------------ main and harness
\* args = parse_arguments(): returns, or raises SystemExit(code)
ParseArguments ==
    /\ entry = "main" /\ mainpc = "parse"
    /\ IF ParseExitCode(argv) = 0
         THEN mainpc' = "construct" /\ pending' = pending
         ELSE mainpc' = "except_exit" /\ pending' = "SystemExit"
    /\ UNCHANGED <<entry, argv, exit_status, constructed, handler_installed>>
    /\ UNCHANGED <<cfgvars, flagvars, localvars, histvars, runvars>>

\* except SystemExit as e: logs and falls through to finally
ExceptSystemExit ==
    /\ mainpc = "except_exit"
    /\ pending' = "none"
    /\ mainpc' = "finally"
    /\ UNCHANGED <<entry, argv, exit_status, constructed, handler_installed>>
    /\ UNCHANGED <<cfgvars, flagvars, localvars, histvars, runvars>>

\* AutoScaler.__init__
Construct ==
    /\ mainpc = "construct"
    /\ retry_count' = argv.retry_count
    /\ retry_delay' = argv.retry_delay
    /\ polling_interval' = argv.polling_interval
    /\ target_cpu_usage' = argv.target_cpu_usage
    /\ run_once' = FALSE
    /\ stop_requested' = FALSE
    /\ constructed' = TRUE
    /\ mainpc' = IF entry = "main" THEN "sigset" ELSE "ready"
    /\ UNCHANGED <<entry, argv, exit_status, pending, handler_installed>>
    /\ UNCHANGED <<localvars, histvars, runvars>>

\* signal.signal(signal.SIGTERM, partial(handle_sigterm, auto_scaler=auto_scaler))
InstallHandler ==
    /\ mainpc = "sigset"
    /\ handler_installed' = TRUE
    /\ mainpc' = "call_run"
    /\ UNCHANGED <<entry, argv, exit_status, pending, constructed>>
    /\ UNCHANGED <<cfgvars, flagvars, localvars, histvars, runvars>>

\* auto_scaler.run_once = True (the harness only; main never sets it)
SetRunOnce ==
    /\ entry = "harness" /\ mainpc = "ready" /\ runpc = "idle"
    /\ ~run_once
    /\ run_once' = TRUE
    /\ UNCHANGED <<mainvars, cfgvars, stop_requested, localvars, histvars, runvars>>

\* auto_scaler.run(): a fresh frame; the harness may call it again after it
\* returned.
CallRun ==
    /\ \/ mainpc = "call_run" /\ runpc = "idle"
       \/ mainpc = "ready" /\ runpc \in {"idle", "returned"}
    /\ mainpc' = IF entry = "main" THEN "run" ELSE mainpc
    /\ runpc' = "loop"
    /\ status' = NoStatus /\ current_cpu' = 0 /\ current_replicas' = 0 /\ new_replicas' = 0
    /\ UNCHANGED <<entry, argv, exit_status, pending, constructed, handler_installed>>
    /\ call_iters' = 0
    /\ UNCHANGED <<cfgvars, flagvars, histvars, exc, attempts, iter>>

\* run() returned to main: on to the finally block
RunReturns ==
    /\ mainpc = "run" /\ runpc = "returned"
    /\ mainpc' = "finally"
    /\ UNCHANGED <<entry, argv, exit_status, pending, constructed, handler_installed>>
    /\ UNCHANGED <<cfgvars, flagvars, localvars, histvars, runvars>>

\* run() raised something main has no handler for (the blanket handler is
\* commented out): it propagates through finally.
RunRaises ==
    /\ mainpc = "run" /\ runpc = "raised"
    /\ pending' = exc
    /\ mainpc' = "finally"
    /\ UNCHANGED <<entry, argv, exit_status, constructed, handler_installed>>
    /\ UNCHANGED <<cfgvars, flagvars, localvars, histvars, runvars>>

\* Ctrl+C anywhere inside main's try block; inside run() it unwinds run().
KeyboardInterrupt ==
    /\ entry = "main"
    /\ mainpc \in {"parse", "construct", "sigset", "call_run", "run"}
    /\ mainpc = "run" => Active
    /\ mainpc' = "except_kbd"
    /\ IF mainpc = "run"
         THEN runpc' = "raised" /\ exc' = "KeyboardInterrupt"
         ELSE UNCHANGED <<runpc, exc>>
    /\ UNCHANGED <<entry, argv, exit_status, pending, constructed, handler_installed>>
    /\ UNCHANGED <<cfgvars, flagvars, localvars, histvars, attempts, iter, call_iters>>

\* except KeyboardInterrupt: auto_scaler.request_stop(); auto_scaler may
\* still be None.
ExceptKeyboardInterrupt ==
    /\ mainpc = "except_kbd"
    /\ IF constructed
         THEN request_stop /\ pending' = pending
         ELSE UNCHANGED stop_requested /\ pending' = "AttributeError"
    /\ mainpc' = "finally"
    /\ UNCHANGED <<entry, argv, exit_status, constructed, handler_installed>>
    /\ UNCHANGED <<cfgvars, run_once, localvars, histvars, runvars>>

\* finally: request_stop() if there is a scaler, log, and leave main; the
\* process exits 0 unless an exception is still propagating.
Finally ==
    /\ mainpc = "finally"
    /\ IF constructed THEN request_stop ELSE UNCHANGED stop_requested
    /\ exit_status' = IF pending = "none" THEN 0 ELSE 1
    /\ mainpc' = "exited"
    /\ UNCHANGED <<entry, argv, pending, constructed, handler_installed>>
    /\ UNCHANGED <<cfgvars, run_once, localvars, histvars, runvars>>

\* ----------------------------------------------------------- stop flag
\* Mutant: stopping also switches the loop to run-once mode.
RequestStopViaRunOnce ==
    /\ entry = "harness" /\ constructed
    /\ stop_requested' = TRUE
    /\ run_once' = TRUE
    /\ UNCHANGED <<mainvars, cfgvars, localvars, histvars, runvars>>

\* AutoScaler.request_stop, called from another execution context
RequestStop ==
    /\ entry = "harness" /\ constructed
    /\ request_stop
    /\ UNCHANGED <<mainvars, cfgvars, run_once, localvars, histvars, runvars>>

\* handle_sigterm, once the handler is installed and the process lives
HandleSigterm ==
    /\ handler_installed /\ mainpc # "exited"
    /\ request_stop
    /\ UNCHANGED <<mainvars, cfgvars, run_once, localvars, histvars, runvars>>

\* ------------------------------------------------------------------ run
\* One failed attempt: attempts += 1; time.sleep(retry_delay**attempts)
FailedAttempt(sleeping) ==
    /\ attempts' = attempts + 1
    /\ sleeps' = Append(sleeps, Backoff(retry_delay, attempts + 1))
    /\ last_sleep' = Backoff(retry_delay, attempts + 1)
    /\ iter_sleep' = iter_sleep + Backoff(retry_delay, attempts + 1)
    /\ runpc' = sleeping

\* while not self.stop_requested: leave, or start an iteration by calling
\* get_current_status() (attempts = 0)
LoopCheck ==
    /\ runpc = "loop"
    /\ IF LoopContinues(stop_requested)
         THEN /\ iter < MaxIter
              /\ iter' = iter + 1
              /\ call_iters' = call_iters + 1
              /\ response' = NoResponse /\ iter_sleep' = 0
              /\ runpc' = "get_while"
              /\ attempts' = 0
              /\ reqs' = 0 /\ sleeps' = <<>>
              /\ put_calls' = 0 /\ put_sent' = <<>>
              /\ get_outcome' = "pending" /\ put_outcome' = "none"
              /\ UNCHANGED <<net_used, last_sleep>>
         ELSE /\ runpc' = "returned"
              /\ UNCHANGED <<iter, call_iters, attempts, histvars>>
    /\ UNCHANGED <<mainvars, cfgvars, flagvars, localvars, exc>>

\* Mutant: the retry loop of the read also ends on the stop flag.
GetWhileStopsOnFlag ==
    /\ runpc = "get_while"
    /\ IF RetryAllowed(attempts, retry_count) /\ ~stop_requested
         THEN /\ runpc' = "get_req"
              /\ reqs' = reqs + 1
              /\ net_used' = TRUE
              /\ UNCHANGED <<status, get_outcome>>
         ELSE /\ status' = NoStatus
              /\ get_outcome' = "exhausted"
              /\ runpc' = "decide"
              /\ UNCHANGED <<reqs, net_used>>
    /\ UNCHANGED <<mainvars, cfgvars, flagvars, exc, attempts, iter, call_iters>>
    /\ UNCHANGED <<current_cpu, current_replicas, new_replicas>>
    /\ response' = NoResponse
    /\ UNCHANGED <<sleeps, put_calls, put_sent, put_outcome, last_sleep, iter_sleep>>

\* Mutant: giving up leaves the status of the earlier cycle in place.
GetWhileKeepsStatus ==
    /\ runpc = "get_while"
    /\ IF RetryAllowed(attempts, retry_count)
         THEN /\ runpc' = "get_req"
              /\ reqs' = reqs + 1
              /\ net_used' = TRUE
              /\ UNCHANGED <<status, get_outcome>>
         ELSE /\ status' = status
              /\ get_outcome' = "exhausted"
              /\ runpc' = "decide"
              /\ UNCHANGED <<reqs, net_used>>
    /\ UNCHANGED <<mainvars, cfgvars, flagvars, exc, attempts, iter, call_iters>>
    /\ UNCHANGED <<current_cpu, current_replicas, new_replicas>>
    /\ response' = NoResponse
    /\ UNCHANGED <<sleeps, put_calls, put_sent, put_outcome, last_sleep, iter_sleep>>

\* get_current_status: the while condition; issue the GET or return None
GetWhile ==
    /\ runpc = "get_while"
    /\ IF RetryAllowed(attempts, retry_count)
         THEN /\ runpc' = "get_req"
              /\ reqs' = reqs + 1
              /\ net_used' = TRUE
              /\ UNCHANGED <<status, get_outcome>>
         ELSE /\ status' = NoStatus
              /\ get_outcome' = "exhausted"
              /\ runpc' = "decide"
              /\ UNCHANGED <<reqs, net_used>>
    /\ UNCHANGED <<mainvars, cfgvars, flagvars, exc, attempts, iter, call_iters>>
    /\ UNCHANGED <<current_cpu, current_replicas, new_replicas>>
    /\ response' = NoResponse
    /\ UNCHANGED <<sleeps, put_calls, put_sent, put_outcome, last_sleep, iter_sleep>>

\* get_current_status: the outcome of one GET.  A 200 returns
\* response.json() whatever it holds; if json() raises, the exception is a
\* RequestException (caught: a failed attempt) or a plain ValueError
\* (propagates), depending on the requests library in use.
GetResponse ==
    /\ runpc = "get_req"
    /\ \E resp \in GetResponses :
         /\ response' = resp
         /\ IF GetSucceeds(resp)
              THEN IF resp.body = Unparseable
                     THEN \/ /\ FailedAttempt("get_sleep")
                             /\ UNCHANGED <<status, get_outcome, exc>>
                          \/ /\ runpc' = "raised" /\ exc' = "ValueError"
                             /\ get_outcome' = "raised"
                             /\ UNCHANGED <<status, attempts, sleeps, last_sleep, iter_sleep>>
                     ELSE /\ status' = resp.body
                          /\ get_outcome' = "success"
                          /\ runpc' = "decide"
                          /\ UNCHANGED <<attempts, sleeps, last_sleep, iter_sleep, exc>>
              ELSE /\ FailedAttempt("get_sleep")
                   /\ UNCHANGED <<status, get_outcome, exc>>
    /\ UNCHANGED <<mainvars, cfgvars, flagvars, iter, call_iters>>
    /\ UNCHANGED <<current_cpu, current_replicas, new_replicas>>
    /\ UNCHANGED <<reqs, put_calls, put_sent, put_outcome, net_used>>

\* get_current_status: the backoff sleep ends
GetSleepDone ==
    /\ runpc = "get_sleep"
    /\ runpc' = "get_while"
    /\ UNCHANGED <<mainvars, cfgvars, flagvars, localvars, histvars, exc, attempts, iter, call_iters>>

\* Mutant: the attempt counter is shared, the write goes on from the
\* count the read left.
DecideKeepsAttempts ==
    /\ runpc = "decide"
    /\ IF ~Truthy(status)
         THEN /\ runpc' = "tail"
              /\ UNCHANGED <<current_cpu, current_replicas, new_replicas>>
              /\ UNCHANGED <<exc, attempts, reqs, sleeps, put_calls>>
         ELSE IF status.kind = "missing"
           THEN /\ runpc' = "raised" /\ exc' = "KeyError"
                /\ UNCHANGED <<current_cpu, current_replicas, new_replicas>>
                /\ UNCHANGED <<attempts, reqs, sleeps, put_calls>>
           ELSE /\ current_cpu' = status.cpu
                /\ current_replicas' = status.replicas
                /\ new_replicas' = NewReplicas(status.cpu, target_cpu_usage, status.replicas)
                /\ exc' = exc
                /\ IF ShouldWrite(new_replicas', current_replicas')
                     THEN /\ runpc' = "put_while"
                          /\ attempts' = attempts
                          /\ reqs' = 0 /\ sleeps' = sleeps
                          /\ put_calls' = put_calls + 1
                     ELSE /\ runpc' = "tail"
                          /\ UNCHANGED <<attempts, reqs, sleeps, put_calls>>
    /\ UNCHANGED <<mainvars, cfgvars, flagvars, status, iter, call_iters>>
    /\ UNCHANGED <<put_sent, put_outcome, get_outcome, net_used, last_sleep, response, iter_sleep>>

\* run: if status: ... decision rule ... set_replica_count(new_replicas)
Decide ==
    /\ runpc = "decide"
    /\ IF ~Truthy(status)
         THEN /\ runpc' = "tail"
              /\ UNCHANGED <<current_cpu, current_replicas, new_replicas>>
              /\ UNCHANGED <<exc, attempts, reqs, sleeps, put_calls>>
         ELSE IF status.kind = "missing"
           THEN /\ runpc' = "raised" /\ exc' = "KeyError"
                /\ UNCHANGED <<current_cpu, current_replicas, new_replicas>>
                /\ UNCHANGED <<attempts, reqs, sleeps, put_calls>>
           ELSE /\ current_cpu' = status.cpu
                /\ current_replicas' = status.replicas
                /\ new_replicas' = NewReplicas(status.cpu, target_cpu_usage, status.replicas)
                /\ exc' = exc
                /\ IF ShouldWrite(new_replicas', current_replicas')
                     THEN /\ runpc' = "put_while"
                          /\ attempts' = 0
                          /\ reqs' = 0 /\ sleeps' = <<>>
                          /\ put_calls' = put_calls + 1
                     ELSE /\ runpc' = "tail"
                          /\ UNCHANGED <<attempts, reqs, sleeps, put_calls>>
    /\ UNCHANGED <<mainvars, cfgvars, flagvars, status, iter, call_iters>>
    /\ UNCHANGED <<put_sent, put_outcome, get_outcome, net_used, last_sleep, response, iter_sleep>>

\* Mutant: giving up raises instead of returning.
PutWhileRaises ==
    /\ runpc = "put_while"
    /\ IF RetryAllowed(attempts, retry_count)
         THEN /\ runpc' = "put_req"
              /\ reqs' = reqs + 1
              /\ net_used' = TRUE
              /\ put_sent' = Append(put_sent, new_replicas)
              /\ UNCHANGED <<put_outcome, exc>>
         ELSE /\ put_outcome' = "exhausted"
              /\ runpc' = "raised" /\ exc' = "RuntimeError"
              /\ UNCHANGED <<reqs, net_used, put_sent>>
    /\ UNCHANGED <<mainvars, cfgvars, flagvars, localvars, attempts, iter, call_iters>>
    /\ response' = NoResponse
    /\ UNCHANGED <<sleeps, put_calls, get_outcome, last_sleep, iter_sleep>>

\* set_replica_count: the while condition; issue the PUT or give up
PutWhile ==
    /\ runpc = "put_while"
    /\ IF RetryAllowed(attempts, retry_count)
         THEN /\ runpc' = "put_req"
              /\ reqs' = reqs + 1
              /\ net_used' = TRUE
              /\ put_sent' = Append(put_sent, new_replicas)
              /\ UNCHANGED put_outcome
         ELSE /\ put_outcome' = "exhausted"
              /\ runpc' = "tail"
              /\ UNCHANGED <<reqs, net_used, put_sent>>
    /\ UNCHANGED <<mainvars, cfgvars, flagvars, localvars, exc, attempts, iter, call_iters>>
    /\ response' = NoResponse
    /\ UNCHANGED <<sleeps, put_calls, get_outcome, last_sleep, iter_sleep>>

\* Mutant: a 204 is recorded but the retry loop is not left.
PutResponseNoReturn ==
    /\ runpc = "put_req"
    /\ \E resp \in PutResponses :
         /\ response' = resp
         /\ FailedAttempt("put_sleep")
         /\ put_outcome' = IF PutSucceeds(resp) THEN "success" ELSE put_outcome
    /\ UNCHANGED <<mainvars, cfgvars, flagvars, localvars, exc, iter, call_iters>>
    /\ UNCHANGED <<reqs, put_calls, put_sent, get_outcome, net_used>>

\* set_replica_count: the outcome of one PUT
PutResponse ==
    /\ runpc = "put_req"
    /\ \E resp \in PutResponses :
         /\ response' = resp
         /\ IF PutSucceeds(resp)
              THEN /\ put_outcome' = "success"
                   /\ runpc' = "tail"
                   /\ UNCHANGED <<attempts, sleeps, last_sleep, iter_sleep>>
              ELSE /\ FailedAttempt("put_sleep")
                   /\ UNCHANGED put_outcome
    /\ UNCHANGED <<mainvars, cfgvars, flagvars, localvars, exc, iter, call_iters>>
    /\ UNCHANGED <<reqs, put_calls, put_sent, get_outcome, net_used>>

\* set_replica_count: the backoff sleep ends
PutSleepDone ==
    /\ runpc = "put_sleep"
    /\ runpc' = "put_while"
    /\ UNCHANGED <<mainvars, cfgvars, flagvars, localvars, histvars, exc, attempts, iter, call_iters>>

\* Mutant: the run-once break is missing.
IterationEndNoBreak ==
    /\ runpc = "tail"
    /\ runpc' = "poll_sleep" /\ last_sleep' = polling_interval
    /\ UNCHANGED <<mainvars, cfgvars, flagvars, localvars, exc, attempts, iter, call_iters>>
    /\ UNCHANGED <<reqs, sleeps, put_calls, put_sent, put_outcome, get_outcome, net_used>>
    /\ UNCHANGED <<response, iter_sleep>>

\* run: if self.run_once: break, else time.sleep(self.polling_interval)
IterationEnd ==
    /\ runpc = "tail"
    /\ IF run_once
         THEN runpc' = "returned" /\ UNCHANGED last_sleep
         ELSE runpc' = "poll_sleep" /\ last_sleep' = polling_interval
    /\ UNCHANGED <<mainvars, cfgvars, flagvars, localvars, exc, attempts, iter, call_iters>>
    /\ UNCHANGED <<reqs, sleeps, put_calls, put_sent, put_outcome, get_outcome, net_used>>
    /\ UNCHANGED <<response, iter_sleep>>

\* run: the polling sleep ends, back to the loop condition
PollSleepDone ==
    /\ runpc = "poll_sleep"
    /\ runpc' = "loop"
    /\ UNCHANGED <<mainvars, cfgvars, flagvars, localvars, histvars, exc, attempts, iter, call_iters>>

RunStep ==
    \/ LoopCheck \/ GetWhile \/ GetResponse \/ GetSleepDone \/ Decide
    \/ PutWhile \/ PutResponse \/ PutSleepDone \/ IterationEnd \/ PollSleepDone

Next ==
    \/ ParseArguments \/ ExceptSystemExit \/ Construct \/ InstallHandler
    \/ SetRunOnce \/ CallRun \/ RunReturns \/ RunRaises
    \/ KeyboardInterrupt \/ ExceptKeyboardInterrupt \/ Finally
    \/ RequestStop \/ HandleSigterm
    \/ LoopCheck \/ GetWhile \/ GetResponse \/ GetSleepDone \/ Decide
    \/ PutWhile \/ PutResponse \/ PutSleepDone \/ IterationEnd \/ PollSleepDone

Spec == Init /\ [][Next]_vars

\* Every step of run() completes: each request has a 5 second timeout and
\* each sleep is finite.
FairSpec == Spec /\ WF_vars(RunStep)

TypeOK ==
    /\ entry \in {"main", "harness"}
    /\ argv \in Argvs
    /\ mainpc \in {"parse", "construct", "sigset", "call_run", "run", "ready",
                   "except_exit", "except_kbd", "finally", "exited"}
    /\ exit_status \in {-1, 0, 1}
    /\ runpc \in {"idle", "loop", "get_while", "get_req", "get_sleep", "decide",
                  "put_while", "put_req", "put_sleep", "tail", "poll_sleep",
                  "returned", "raised"}
    /\ attempts \in 0..MaxRetryCount
    /\ iter \in 0..MaxIter
    /\ status \in Snapshots \cup {NoStatus, Malformed, Falsy}
    /\ Len(sleeps) <= MaxRetryCount
    /\ Len(put_sent) <= MaxRetryCount

\* ------------------------------------------------------------- claims
\* The decision of the iteration has been taken on the snapshot in `status`.
Decided ==
    /\ status.kind = "snapshot"
    /\ runpc \in {"put_while", "put_req", "put_sleep", "tail", "poll_sleep"}

\* C1: once the stop flag is set while run() executes, run() eventually
\* ends, and no further iteration of the loop is started after the flag is
\* set.
C1_StopEndsRun ==
    /\ (stop_requested /\ Active) ~> ~Active
    /\ [][stop_requested => iter' = iter]_vars

\* run() has returned to main from its loop test after an iteration whose
\* write ran out of attempts: the loop is not in run-once mode and main has
\* not reached its handlers, so the SIGTERM handler set the flag while that
\* iteration was in progress.
C1_Witness ==
    /\ entry = "main" /\ mainpc = "run" /\ ~run_once /\ stop_requested
    /\ runpc = "returned" /\ exc = "none" /\ iter >= 1
    /\ put_outcome = "exhausted" /\ Len(sleeps) >= 1

\* C2: in an iteration whose read returned a snapshot with cpu below the
\* target, new_replicas is max(1, current_replicas - 1).
C2_DecreaseFloored ==
    (Decided /\ status.cpu < target_cpu_usage)
        => new_replicas = (IF status.replicas - 1 >= 1 THEN status.replicas - 1 ELSE 1)

\* A decrease from two replicas to one has been decided and is being written.
C2_Witness ==
    /\ Decided /\ status.cpu < target_cpu_usage
    /\ status.replicas = 2 /\ new_replicas = 1 /\ runpc = "put_req"

\* C3: in an iteration whose read returned a snapshot with cpu above the
\* target, new_replicas is current_replicas + 1 and, by the end of the
\* iteration, at least one PUT was issued and every PUT carried that count.
C3_IncreaseWritten ==
    (Decided /\ status.cpu > target_cpu_usage)
        => /\ new_replicas = status.replicas + 1
           /\ put_calls = 1
           /\ runpc \in {"tail", "poll_sleep"} =>
                /\ Len(put_sent) >= 1
                /\ \A i \in 1..Len(put_sent) : put_sent[i] = status.replicas + 1

\* An increase from one replica was written successfully by one PUT of 2.
C3_Witness ==
    /\ Decided /\ status.cpu > target_cpu_usage /\ status.replicas = 1
    /\ runpc = "tail" /\ put_sent = <<2>> /\ put_outcome = "success"

\* C4: in an iteration whose read returned a snapshot with cpu equal to the
\* target, new_replicas is current_replicas and no PUT is issued.
C4_AtTargetNoWrite ==
    (Decided /\ status.cpu = target_cpu_usage)
        => /\ new_replicas = status.replicas
           /\ put_calls = 0
           /\ put_sent = <<>>

\* The iteration that read cpu = target with two replicas reached its end.
C4_Witness ==
    /\ Decided /\ status.cpu = target_cpu_usage /\ status.replicas = 2
    /\ runpc = "tail" /\ new_replicas = 2

\* C5: set_replica_count is invoked in an iteration exactly when the
\* decided new_replicas differs from the observed count (and not at all
\* when no snapshot was read); with one replica and cpu below the target
\* the result is 1 and no PUT is sent.
C5_WriteIffChanged ==
    /\ Decided =>
         /\ (put_calls = 1) <=> (new_replicas # status.replicas)
         /\ put_calls \in {0, 1}
         /\ put_calls = 0 => put_sent = <<>>
         /\ (status.replicas = 1 /\ status.cpu < target_cpu_usage)
                => (new_replicas = 1 /\ put_sent = <<>>)
    /\ (runpc \in {"tail", "poll_sleep"} /\ status.kind # "snapshot")
         => (put_calls = 0 /\ put_sent = <<>>)

\* One replica, cpu below the target: the iteration ended without a write.
C5_Witness ==
    /\ Decided /\ status.replicas = 1 /\ status.cpu < target_cpu_usage
    /\ runpc = "tail" /\ put_calls = 0

InTransport == runpc \in {"get_while", "get_req", "get_sleep", "put_while", "put_req", "put_sleep"}

\* C6: one invocation of get_current_status or set_replica_count issues
\* at most retry_count HTTP requests.
C6_RetryBound == constructed => reqs <= retry_count

\* A write gave up after using all of its (at least two) attempts.
C6_Witness ==
    /\ runpc = "tail" /\ put_outcome = "exhausted"
    /\ retry_count >= 2 /\ reqs = retry_count

\* C7: within one invocation the n-th failed attempt is followed by a sleep
\* of retry_delay^n: one sleep per failed attempt, the first of retry_delay
\* and each next one retry_delay times the previous.
C7_BackoffSequence ==
    InTransport =>
        /\ Len(sleeps) = attempts
        /\ \A n \in 1..Len(sleeps) :
             sleeps[n] = IF n = 1 THEN retry_delay ELSE retry_delay * sleeps[n - 1]
        /\ runpc \in {"get_sleep", "put_sleep"} =>
             (attempts >= 1 /\ last_sleep = sleeps[attempts])

\* The second backoff sleep of a read with retry_delay 2 lasts 4.
C7_Witness ==
    /\ runpc = "get_sleep" /\ retry_delay = 2
    /\ sleeps = <<2, 4>> /\ last_sleep = 4

\* What a step of run() after the end of a transport operation does when
\* nothing interrupts it.
Proceeds ==
    \/ runpc' = runpc
    \/ runpc' = "raised" /\ exc' = "KeyboardInterrupt"
    \/ runpc = "decide" /\ runpc' = "tail"
    \/ runpc = "tail" /\ runpc' = (IF run_once THEN "returned" ELSE "poll_sleep")
    \/ runpc = "poll_sleep" /\ runpc' = "loop"
    \/ runpc = "loop" /\ runpc' = (IF stop_requested THEN "returned" ELSE "get_while")
    \/ runpc = "returned" /\ runpc' = "loop"

\* C8: when get_current_status runs out of attempts it returns None, run()
\* raises nothing, no PUT is issued in that cycle, and run() goes on to the
\* run-once exit or to the polling sleep and the next loop test.
C8_ReadExhaustedSkips ==
    /\ [](get_outcome = "exhausted" =>
            /\ status = NoStatus
            /\ put_calls = 0 /\ put_sent = <<>>
            /\ runpc = "raised" => exc = "KeyboardInterrupt")
    /\ [][get_outcome = "exhausted" => Proceeds]_vars

\* After a read that failed on each of two or more attempts, the loop is in
\* its polling sleep.
C8_Witness ==
    /\ get_outcome = "exhausted" /\ retry_count >= 2 /\ reqs = retry_count
    /\ runpc = "poll_sleep" /\ exc = "none"

\* C9: when set_replica_count runs out of attempts run() raises nothing and
\* continues as after a successful write: run-once exit, or polling sleep
\* and the next loop test.
C9_WriteExhaustedContinues ==
    /\ [](put_outcome = "exhausted" =>
            /\ runpc \in {"tail", "poll_sleep", "loop", "returned", "raised"}
            /\ runpc = "raised" => exc = "KeyboardInterrupt")
    /\ [][(put_outcome = "exhausted" \/ put_outcome = "success") => Proceeds]_vars

\* After a write that failed on every attempt the loop has come back to
\* its loop test.
C9_Witness ==
    /\ put_outcome = "exhausted" /\ retry_count >= 1 /\ Len(put_sent) = retry_count
    /\ runpc = "loop" /\ exc = "none"

\* C10: with an invalid host or port, the process exits with a non-zero
\* status, without having started the loop or issued any request.
C10_InvalidConfigExitsNonZero ==
    (entry = "main" /\ mainpc = "exited" /\ ParseExitCode(argv) # 0)
        => (exit_status # 0 /\ runpc = "idle" /\ ~net_used)

\* The write the decision rule calls for on the snapshot in `status`.
WriteDue ==
    /\ get_outcome = "success" /\ status.kind = "snapshot"
    /\ ShouldWrite(NewReplicas(status.cpu, target_cpu_usage, status.replicas), status.replicas)

\* C11: a KeyboardInterrupt arriving in the middle of an iteration sets the
\* stop flag and lets the iteration finish before the process exits: the
\* read in progress has ended and the write that was due has been carried
\* to success or to the end of its attempts.
C11_InterruptCompletesIteration ==
    (mainpc = "exited" /\ exc = "KeyboardInterrupt")
        => /\ stop_requested
           /\ get_outcome # "pending"
           /\ WriteDue => put_outcome \in {"success", "exhausted"}

\* C12 as stated: in run-once mode a call of run() that has returned made
\* exactly one iteration, whatever the stop flag.
C12_RunOnceExactlyOne ==
    (run_once /\ runpc = "returned") => call_iters = 1

\* C12 as amended: in run-once mode a call of run() never performs the
\* polling sleep and makes at most one iteration: exactly one when it ends
\* with the stop flag clear, none only when the flag was set before its
\* first loop test.
C12_RunOnceAtMostOne ==
    run_once =>
        /\ runpc # "poll_sleep"
        /\ call_iters <= 1
        /\ (runpc \in {"returned", "raised"} /\ ~stop_requested) => call_iters = 1

\* A run-once call returned after one iteration whose write gave up, the
\* stop flag still clear.
C12_Witness ==
    /\ run_once /\ runpc = "returned" /\ call_iters = 1
    /\ ~stop_requested /\ put_outcome = "exhausted"

\* The backoff delays of the invocation in progress follow retry_delay^n.
BackoffSoFar ==
    /\ Len(sleeps) = attempts
    /\ \A n \in 1..Len(sleeps) :
         sleeps[n] = IF n = 1 THEN retry_delay ELSE retry_delay * sleeps[n - 1]

\* C13: an attempt of set_replica_count succeeds exactly when the answer is
\* a 204; any other status (200 included) and any transport failure is a
\* failed attempt followed by the backoff and retry cap of the read.
C13_PutSuccessOnly204 ==
    /\ []((runpc = "tail" /\ put_outcome = "success")
            => (~response.failed /\ response.status_code = StatusNoContent))
    /\ [](runpc = "put_sleep"
            => /\ response.failed \/ response.status_code # StatusNoContent
               /\ attempts >= 1 /\ attempts <= retry_count
               /\ BackoffSoFar
               /\ last_sleep = sleeps[attempts])
    /\ [][(runpc = "put_req" /\ runpc' # runpc) =>
            IF ~response'.failed /\ response'.status_code = StatusNoContent
              THEN runpc' = "tail" /\ put_outcome' = "success"
              ELSE \/ runpc' = "put_sleep" /\ attempts' = attempts + 1
                   \/ runpc' = "raised" /\ exc' = "KeyboardInterrupt"]_vars

\* A PUT answered with 200 is being backed off as a failed attempt.
C13_Witness ==
    /\ runpc = "put_sleep" /\ ~response.failed /\ response.status_code = StatusOk
    /\ attempts = 1

\* C14: a 200 answer to the GET whose body is malformed is a failed
\* attempt: it never reaches the decision of run() as a status and it never
\* ends run() with an exception.
C14_MalformedBodyRetried ==
    /\ exc \notin {"KeyError", "ValueError"}
    /\ runpc = "decide" => status.kind \in {"none", "snapshot"}

\* C15: the stop flag never goes back to false, and once it is set no
\* iteration is started, also by a later call of run().
C15_StopFlagMonotone ==
    [][stop_requested => (stop_requested' /\ iter' = iter /\ call_iters' <= call_iters)]_vars

\* run() was entered again with the flag set after earlier iterations and
\* returned without starting one.
C15_Witness ==
    /\ stop_requested /\ runpc = "returned"
    /\ call_iters = 0 /\ iter >= 1

\* C16: every run of request_stop or of the SIGTERM handler leaves the stop
\* flag set and the configuration and run_once as they were; run again
\* with the flag set, it changes nothing at all.
C16_RequestStopIdempotent ==
    [][(RequestStop \/ HandleSigterm) =>
          /\ stop_requested'
          /\ UNCHANGED <<cfgvars, run_once>>
          /\ stop_requested => UNCHANGED vars]_vars

\* request_stop has run on a scaler in run-once mode before run() was called.
C16_Witness ==
    /\ entry = "harness" /\ stop_requested /\ run_once
    /\ runpc = "idle" /\ retry_count = argv.retry_count

\* C17: a backoff sleep is always followed by another attempt of the same
\* invocation: while sleeping, an attempt is still permitted.
C17_SleepOnlyBeforeRetry ==
    runpc \in {"get_sleep", "put_sleep"} => RetryAllowed(attempts, retry_count)

\* The steps of a transport operation as its retry loop dictates them.
TransportStep ==
    \/ /\ runpc \in {"get_while", "put_while"} /\ attempts < retry_count
       /\ runpc' = (IF runpc = "get_while" THEN "get_req" ELSE "put_req")
       /\ reqs' = reqs + 1
    \/ /\ runpc \in {"get_while", "put_while"} /\ attempts >= retry_count
       /\ runpc' = (IF runpc = "get_while" THEN "decide" ELSE "tail")
    \/ /\ runpc \in {"get_sleep", "put_sleep"}
       /\ runpc' = (IF runpc = "get_sleep" THEN "get_while" ELSE "put_while")
       /\ UNCHANGED <<attempts, sleeps, reqs>>
    \/ /\ runpc = "get_req"
       /\ IF ~response'.failed /\ response'.status_code = StatusOk
               /\ response'.body # Unparseable
            THEN runpc' = "decide" /\ UNCHANGED <<attempts, sleeps>>
            ELSE runpc' = "get_sleep" /\ Len(sleeps') = Len(sleeps) + 1
    \/ /\ runpc = "put_req"
       /\ IF ~response'.failed /\ response'.status_code = StatusNoContent
            THEN runpc' = "tail" /\ UNCHANGED <<attempts, sleeps>>
            ELSE runpc' = "put_sleep" /\ Len(sleeps') = Len(sleeps) + 1

\* C18: with the stop flag set, a transport operation in progress goes on
\* exactly as its retry loop dictates: the requests and sleeps that follow
\* depend on the answers only.
C18_StopDoesNotCancelRetries ==
    [][(stop_requested /\ InTransport /\ runpc' # runpc /\ runpc' # "raised")
          => TransportStep]_vars

\* With the flag set, a write is in its second attempt after a backoff.
C18_Witness ==
    /\ stop_requested /\ runpc = "put_req"
    /\ attempts = 1 /\ Len(sleeps) = 1 /\ reqs = 2

\* C19: every invocation starts with no attempt used and no delay slept,
\* its first delay is retry_delay, and it gives up only after retry_count
\* requests of its own.
C19_FreshRetryState ==
    /\ (runpc \in {"get_while", "put_while"} /\ reqs = 0)
         => (attempts = 0 /\ sleeps = <<>>)
    /\ InTransport => (attempts <= reqs /\ reqs <= attempts + 1)
    /\ (runpc \in {"get_sleep", "put_sleep"}) => (Len(sleeps) >= 1 /\ sleeps[1] = retry_delay)
    /\ (runpc = "tail" /\ put_outcome = "exhausted") => reqs = retry_count
    /\ (runpc = "decide" /\ get_outcome = "exhausted") => reqs = retry_count

\* In the first iteration the read slept one backoff of 2 before it
\* succeeded, and the write that follows is in its first attempt.
C19_Witness ==
    /\ entry = "main" /\ iter = 1 /\ runpc = "put_req"
    /\ attempts = 0 /\ reqs = 1 /\ retry_delay = 2 /\ iter_sleep = 2

\* C20 as stated: the backoff sleeps of one iteration total at most
\* retry_count * retry_delay^retry_count.
C20_IterationBackoffBound ==
    (retry_count >= 1 /\ retry_delay >= 1)
        => iter_sleep <= retry_count * Pow(retry_delay, retry_count)

\* C20 as amended: the backoff sleeps of one iteration (read plus write)
\* total at most 2 * retry_count * retry_delay^retry_count.
C20_IterationBackoffBoundTwice ==
    (retry_count >= 1 /\ retry_delay >= 1)
        => iter_sleep <= 2 * retry_count * Pow(retry_delay, retry_count)

\* An iteration has ended whose read and write together slept longer than
\* retry_count * retry_delay^retry_count.
C20_Witness ==
    /\ retry_count >= 1 /\ retry_delay >= 1 /\ runpc = "tail"
    /\ put_outcome = "exhausted"
    /\ iter_sleep > retry_count * Pow(retry_delay, retry_count)

\* The iteration in progress has sent at least one PUT.
Written ==
    /\ Len(put_sent) >= 1
    /\ runpc \in {"put_while", "put_req", "put_sleep", "tail", "poll_sleep"}

\* C21: with an observed replica count >= 0, every count passed to
\* set_replica_count is at least 1 and is the observed count plus one or
\* minus one; nothing is written without an observed snapshot.
C21_WritesOneStepAtLeastOne ==
    /\ Written => status.kind = "snapshot"
    /\ (Written /\ status.kind = "snapshot" /\ status.replicas >= 0) =>
         \A i \in 1..Len(put_sent) :
            /\ put_sent[i] >= 1
            /\ \/ put_sent[i] = status.replicas + 1
               \/ put_sent[i] = status.replicas - 1

\* Zero replicas observed with cpu below the target: the floor makes the
\* decision 1, which is written.
C21_Witness ==
    /\ status.kind = "snapshot" /\ status.replicas = 0
    /\ status.cpu < target_cpu_usage
    /\ runpc = "tail" /\ put_sent = <<1>> /\ put_outcome = "success"

\* set_replica_count is executing.
InPut == runpc \in {"put_while", "put_req", "put_sleep"}

\* C22: a PUT is issued only after the GET of the same iteration succeeded,
\* it carries the count decided from the snapshot that GET returned, the
\* snapshot and the count do not change while the write runs, and
\* set_replica_count is invoked at most once in an iteration.
C22_WriteFromFreshSnapshot ==
    /\ []((InPut \/ Written) =>
            /\ get_outcome = "success" /\ status.kind = "snapshot"
            /\ new_replicas = NewReplicas(status.cpu, target_cpu_usage, status.replicas)
            /\ \A i \in 1..Len(put_sent) : put_sent[i] = new_replicas)
    /\ []((runpc = "put_while" /\ reqs = 0) =>
            (GetSucceeds(response) /\ response.body = status))
    /\ [](put_calls <= 1)
    /\ [][InPut => UNCHANGED <<status, new_replicas, iter, put_calls>>]_vars

\* The second iteration of a call of run() read its own snapshot after a
\* failed first GET and is sending the count decided from it.
C22_Witness ==
    /\ call_iters = 2 /\ runpc = "put_req" /\ get_outcome = "success"
    /\ iter_sleep >= 1 /\ status.replicas = 1 /\ put_sent = <<2>>

\* C23 as stated: after a 200 answer in get_current_status or a 204 answer
\* in set_replica_count the invocation ends at once, with no further
\* request and no backoff sleep.
C23_SuccessEndsInvocation ==
    /\ [][(runpc = "get_req" /\ ~response'.failed /\ response'.status_code = StatusOk)
            => (/\ runpc' = "decide" \/ runpc' = "raised"
                /\ UNCHANGED <<attempts, sleeps, iter_sleep, reqs>>)]_vars
    /\ [][(runpc = "put_req" /\ ~response'.failed /\ response'.status_code = StatusNoContent)
            => (runpc' = "tail" /\ UNCHANGED <<attempts, sleeps, iter_sleep, reqs>>)]_vars

\* An invocation that ended is not resumed.
EndedStaysEnded ==
    /\ runpc = "decide" => (runpc' # "get_while" /\ runpc' # "get_req" /\ runpc' # "get_sleep")
    /\ runpc = "tail" => ~InPut'

\* C23 as amended: after a 200 answer whose body parses as JSON in
\* get_current_status, or a 204 answer in set_replica_count, the invocation
\* ends at once, with no further request and no backoff sleep.
C23_ParsedSuccessEndsInvocation ==
    /\ [][(/\ runpc = "get_req" /\ ~response'.failed
           /\ response'.status_code = StatusOk /\ response'.body # Unparseable)
            => (runpc' = "decide" /\ get_outcome' = "success"
                /\ UNCHANGED <<attempts, sleeps, iter_sleep, reqs>>)]_vars
    /\ [][(runpc = "put_req" /\ ~response'.failed /\ response'.status_code = StatusNoContent)
            => (runpc' = "tail" /\ put_outcome' = "success"
                /\ UNCHANGED <<attempts, sleeps, iter_sleep, reqs>>)]_vars
    /\ [][EndedStaysEnded]_vars

\* Both operations of an iteration succeeded at their first attempt with
\* two attempts allowed: one GET, one PUT, no backoff sleep.
C23_Witness ==
    /\ retry_count = 2 /\ runpc = "tail"
    /\ get_outcome = "success" /\ put_outcome = "success"
    /\ reqs = 1 /\ attempts = 0 /\ sleeps = <<>> /\ iter_sleep = 0

====
